---- MODULE Spec2Model ----
(***************************************************************************)
(* Helios: the hybrid insight synthesizer (generate_insight.py) and the    *)
(* training run (predictive_models.py), as state machines.                 *)
(*                                                                         *)
(* A Python str is a sequence of one-character strings; the four emoji of  *)
(* the program are written "U+1F916", "U+1F4CA", "U+1F4C8", "U+1F465" and  *)
(* each stands for one character.  The category labels of the churn table  *)
(* are TLA+ strings; Spelling gives the characters of each.                *)
(***************************************************************************)
EXTENDS Integers, Sequences, FiniteSets, TLC

VARIABLES
    generator,       \* generate_insight.py module global: "loaded" or "None"
    context,         \* argument of the last generate_insight call
    query,           \* argument of the last generate_insight call
    gen,             \* what the generative model did in the last call
    outcome,         \* how the last generate_insight call ended
    calls,           \* number of generate_insight calls made so far
    pc_report,       \* position of generate_insight.main()
    sales_db,        \* what the store answered to the sales query
    churn_db,        \* what the store answered to the churn query
    sales_insight,   \* main(): local sales_insight
    churn_insight,   \* main(): local churn_insight
    stdout,          \* lines printed by main()
    report_exit,     \* how main() ended
    pc,              \* position of predictive_models.main()
    run,             \* number of training runs started; names the fit of a run
    sales_df,        \* main(): the sales series as read
    forecast,        \* main(): the forecast frame
    sales_forecast,  \* store: table sales_forecast
    churn_in,        \* main(): the churn table as read
    churn_df,        \* main(): the churn table after encoding
    label_encoders,  \* main(): column -> classes_ of its LabelEncoder
    model_xgb,       \* main(): the fitted classifier
    model_file,      \* file xgboost_churn_model.json
    enc_file,        \* file label_encoders.json
    train_exit       \* how predictive_models.main() ended

insight_vars == <<generator, context, query, gen, outcome, calls>>
report_vars == <<pc_report, sales_db, churn_db, sales_insight, churn_insight, stdout, report_exit>>
train_locals == <<sales_df, forecast, churn_in, churn_df, label_encoders, model_xgb>>
train_vars == <<pc, run, train_locals, sales_forecast, model_file, enc_file, train_exit>>
vars == <<insight_vars, report_vars, train_vars>>

-----------------------------------------------------------------------------
(* Bounds of the model *)

\* largest number of whitespace-delimited words in a generated text
MaxTokens == 4
\* number of training runs
MaxRuns == 2
\* dates of the sales series are days 1..MaxDay
MaxDay == 3
\* largest number of rows of the churn table
MaxRows == 6

-----------------------------------------------------------------------------
(* Python str operations *)

Whitespace == {" ", "\n", "\t"}

RECURSIVE lstrip(_)
lstrip(s) == IF s # <<>> /\ Head(s) \in Whitespace THEN lstrip(Tail(s)) ELSE s

RECURSIVE rstrip(_)
rstrip(s) ==
    IF s # <<>> /\ s[Len(s)] \in Whitespace THEN rstrip(SubSeq(s, 1, Len(s) - 1)) ELSE s

\* str.strip()
strip(s) == rstrip(lstrip(s))

\* the first whitespace-free run of s (s starts with a non-space character)
RECURSIVE FirstWord(_)
FirstWord(s) ==
    IF s = <<>> \/ Head(s) \in Whitespace THEN <<>> ELSE <<Head(s)>> \o FirstWord(Tail(s))

\* str.split(): the maximal runs of non-whitespace characters, in order
RECURSIVE split(_)
split(s) ==
    LET t == lstrip(s)
        w == FirstWord(t)
    IN  IF t = <<>> THEN <<>> ELSE <<w>> \o split(SubSeq(t, Len(w) + 1, Len(t)))

\* str.count(sub): non-overlapping occurrences of sub, scanning from the left
RECURSIVE count(_, _)
count(s, sub) ==
    IF Len(s) < Len(sub) THEN 0
    ELSE IF SubSeq(s, 1, Len(sub)) = sub
         THEN 1 + count(SubSeq(s, Len(sub) + 1, Len(s)), sub)
         ELSE count(Tail(s), sub)

\* sub in s
contains(s, sub) ==
    \E i \in 0..(Len(s) - Len(sub)) : SubSeq(s, i + 1, i + Len(sub)) = sub

startswith(s, prefix) ==
    Len(prefix) <= Len(s) /\ SubSeq(s, 1, Len(prefix)) = prefix

UpperCase == <<"A","B","C","D","E","F","G","H","I","J","K","L","M","N","O","P","Q","R","S","T","U",
    "V","W","X","Y","Z">>
LowerCase == <<"a","b","c","d","e","f","g","h","i","j","k","l","m","n","o","p","q","r","s","t","u",
    "v","w","x","y","z">>

lower_char(c) ==
    IF \E i \in DOMAIN UpperCase : UpperCase[i] = c
    THEN LowerCase[CHOOSE i \in DOMAIN UpperCase : UpperCase[i] = c]
    ELSE c

\* str.lower()
lower(s) == [i \in DOMAIN s |-> lower_char(s[i])]

\* seq[:n]
Take(seq, n) == SubSeq(seq, 1, IF Len(seq) < n THEN Len(seq) ELSE n)

\* c * n
Repeat(c, n) == [i \in 1..n |-> c]

\* Python values that may be None
None == [some |-> FALSE, val |-> <<>>]
Some(v) == [some |-> TRUE, val |-> v]
\* truth value of an Optional[str]: None and "" are false
Truthy(x) == x.some /\ x.val # <<>>

\* how a call ends
Return(v) == [kind |-> "return", value |-> v]
Raise == [kind |-> "raise", value |-> <<>>]
NotCalled == [kind |-> "not_called", value |-> <<>>]

-----------------------------------------------------------------------------
(* generate_insight.py: the synthesizer *)

MinLength == 10
MaxPeriods == 5
MaxRepeats == 2
FirstTokens == 3

AIMarker == <<"U+1F916"," ","A","I"," ","A","N","A","L","Y","S","I","S",":"," ">>
TemplateMarker == <<"U+1F4CA"," ","R","E","L","I","A","B","L","E"," ","A","N","A","L","Y","S","I","S",":",
    " ">>

\* "Churn analysis shows a critical 26.5% churn rate, ..."
ChurnTemplate ==
    <<"C","h","u","r","n"," ","a","n","a","l","y","s","i","s"," ","s","h","o","w","s"," ",
    "a"," ","c","r","i","t","i","c","a","l"," ","2","6",".","5","%"," ","c","h","u","r",
    "n"," ","r","a","t","e",","," ","p","r","i","m","a","r","i","l","y"," ","d","r","i",
    "v","e","n"," ","b","y"," ","m","o","n","t","h","-","t","o","-","m","o","n","t","h",
    " ","f","i","b","e","r"," ","o","p","t","i","c"," ","c","u","s","t","o","m","e","r",
    "s","."," ","W","e"," ","s","h","o","u","l","d"," ","i","m","m","e","d","i","a","t",
    "e","l","y"," ","i","m","p","l","e","m","e","n","t"," ","t","a","r","g","e","t","e",
    "d"," ","r","e","t","e","n","t","i","o","n"," ","p","r","o","g","r","a","m","s"," ",
    "f","o","r"," ","t","h","i","s"," ","h","i","g","h","-","r","i","s","k"," ","s","e",
    "g","m","e","n","t",".">>

\* "Sales forecast predicts stable performance. ..."
SalesTemplate ==
    <<"S","a","l","e","s"," ","f","o","r","e","c","a","s","t"," ","p","r","e","d","i","c",
    "t","s"," ","s","t","a","b","l","e"," ","p","e","r","f","o","r","m","a","n","c","e",
    "."," ","M","a","i","n","t","a","i","n"," ","c","u","r","r","e","n","t"," ","o","p",
    "e","r","a","t","i","o","n","s"," ","a","n","d"," ","m","o","n","i","t","o","r"," ",
    "k","e","y"," ","m","e","t","r","i","c","s"," ","c","l","o","s","e","l","y"," ","f",
    "o","r"," ","a","n","y"," ","c","h","a","n","g","e","s"," ","i","n"," ","m","a","r",
    "k","e","t"," ","c","o","n","d","i","t","i","o","n","s",".">>

ChurnKeyword == <<"c","h","u","r","n">>

\* what the generative model does when called: it raises, or returns a text
GenRaises == [kind |-> "raise", text |-> <<>>]
GenText(t) == [kind |-> "text", text |-> t]
GenNotCalled == [kind |-> "not_called", text |-> <<>>]

\* line 37: the output is "garbage"
NoLengthCheck_IsGarbage(text) ==
    \/ count(text, <<".">>) > MaxPeriods
    \/ \E i \in DOMAIN Take(split(text), FirstTokens) :
           count(text, split(text)[i]) > MaxRepeats

IsGarbage(text) ==
    \/ Len(text) < MinLength
    \/ count(text, <<".">>) > MaxPeriods
    \/ \E i \in DOMAIN Take(split(text), FirstTokens) :
           count(text, split(text)[i]) > MaxRepeats

\* lines 32-40: the body of the try block
ai_try_body(g) ==
    IF g.kind = "raise" THEN Raise
    ELSE LET text == strip(g.text)
         IN  IF IsGarbage(text) THEN Return(None) ELSE Return(Some(text))

\* generate_ai_insight with the except clause left out
NoExcept_generate_ai_insight(gtor, g) ==
    IF gtor = "None" THEN Return(None) ELSE ai_try_body(g)

\* lines 26-44
generate_ai_insight(gtor, g) ==
    IF gtor = "None" THEN Return(None)
    ELSE IF ai_try_body(g).kind = "raise" THEN Return(None)
         ELSE ai_try_body(g)

\* generate_template_insight matching the keyword on the query as written
NoLower_generate_template_insight(c, q) ==
    IF contains(q, ChurnKeyword) THEN ChurnTemplate ELSE SalesTemplate

\* lines 46-51
generate_template_insight(c, q) ==
    IF contains(lower(q), ChurnKeyword) THEN ChurnTemplate ELSE SalesTemplate

\* generate_insight that marks every result as AI output
OneMarker_generate_insight(gtor, g, c, q) ==
    LET ai == generate_ai_insight(gtor, g)
    IN  IF ai.kind = "raise" THEN Raise
        ELSE IF Truthy(ai.value)
             THEN Return(AIMarker \o ai.value.val)
             ELSE Return(AIMarker \o generate_template_insight(c, q))

\* lines 53-59
generate_insight(gtor, g, c, q) ==
    LET ai == generate_ai_insight(gtor, g)
    IN  IF ai.kind = "raise" THEN Raise
        ELSE IF Truthy(ai.value)
             THEN Return(AIMarker \o ai.value.val)
             ELSE Return(TemplateMarker \o generate_template_insight(c, q))

-----------------------------------------------------------------------------
(* Inputs of the synthesizer *)

Vocabulary == {<<"a">>, <<"o","k">>, <<"b","a","n","a","n","a">>, <<"u","p",".",".",".">>}

RECURSIVE JoinWords(_)
JoinWords(ws) ==
    IF ws = <<>> THEN <<>>
    ELSE IF Len(ws) = 1 THEN ws[1]
         ELSE ws[1] \o <<" ">> \o JoinWords(Tail(ws))

WordLists(n) == UNION {[1..k -> Vocabulary] : k \in 0..n}

\* a generated text: words joined by blanks, bare or surrounded by whitespace
Padded(t) == <<" "," "," ">> \o t \o <<"\n", "\n">>
TextsUpTo(n) == {JoinWords(ws) : ws \in WordLists(n)} \cup {Padded(JoinWords(ws)) : ws \in WordLists(n)}

GenTexts == TextsUpTo(MaxTokens)

Queries ==
    {<<"W","h","a","t"," ","d","r","i","v","e","s"," ","c","h","u","r","n","?">>, <<"f","o","r","e","c","a","s","t"," ","o","u","t","l","o","o","k">>, <<"C","H","U","R","N">>, <<"C","u","s","t","o","m","e","r"," ","C","h","u","r","n">>,
     <<"c","h","u","r"," ","n">>, <<>>}

Contexts == {<<"S","a","l","e","s"," ","f","o","r","e","c","a","s","t",":"," ","$","5","1",",","2",
    "3","4">>, <<"O","v","e","r","a","l","l"," ","c","h","u","r","n"," ","r","a","t","e",":"," ","2",
    "6",".","5","%">>}

\* the behaviours of the generative model open to a call
GenBehaviours(texts) ==
    IF generator = "None" THEN {GenNotCalled}
    ELSE {GenRaises} \cup {GenText(t) : t \in texts}

\* a call generate_insight(c, q) during which the model behaves as g
CallGenerateInsight(c, q, g) ==
    /\ context' = c
    /\ query' = q
    /\ gen' = g
    /\ outcome' = generate_insight(generator, g, c, q)
    /\ calls' = calls + 1
    /\ UNCHANGED generator

InsightInit ==
    /\ generator \in {"loaded", "None"}
    /\ context = <<>>
    /\ query = <<>>
    /\ gen = GenNotCalled
    /\ outcome = NotCalled
    /\ calls = 0

\* texts the model returns in a repeated call: one the gate rejects, one it accepts
RepeatTexts == {<<"o","k"," ","o","k">>, <<"F","o","c","u","s"," ","o","n"," ","g","r","o","w","t","h"," ","n","o","w">>}

\* a first request: any context, any query, any behaviour of the model
Synthesize ==
    /\ calls = 0
    /\ \E c \in Contexts, q \in Queries, g \in GenBehaviours(GenTexts) :
           CallGenerateInsight(c, q, g)
    /\ UNCHANGED <<report_vars, train_vars>>

\* a second request with the query of the first and any context
SynthesizeAgain ==
    /\ calls = 1
    /\ \E c \in Contexts, g \in GenBehaviours(RepeatTexts) :
           CallGenerateInsight(c, query, g)
    /\ UNCHANGED <<report_vars, train_vars>>

-----------------------------------------------------------------------------
(* generate_insight.py: the report entry point *)

RuleWidth == 60

DigitChars == <<"0","1","2","3","4","5","6","7","8","9">>

RECURSIVE Digits(_)
Digits(n) ==
    IF n < 10 THEN <<DigitChars[n + 1]>>
    ELSE Digits(n \div 10) \o <<DigitChars[(n % 10) + 1]>>

ThreeDigits(n) ==
    <<DigitChars[(n \div 100) + 1], DigitChars[((n \div 10) % 10) + 1], DigitChars[(n % 10) + 1]>>

RECURSIVE Grouped(_)
Grouped(n) ==
    IF n < 1000 THEN Digits(n)
    ELSE Grouped(n \div 1000) \o <<",">> \o ThreeDigits(n % 1000)

\* round(|t| / 10) to the nearest integer, ties to even (t counts tenths)
RoundTenths(t) ==
    LET a == IF t < 0 THEN -t ELSE t
        q == a \div 10
        r == a % 10
    IN  IF r > 5 \/ (r = 5 /\ q % 2 = 1) THEN q + 1 ELSE q

\* f"{x:,.0f}" of the float x = t / 10
FormatThousands(t) == (IF t < 0 THEN <<"-">> ELSE <<>>) \o Grouped(RoundTenths(t))

\* f"{x}" of the one-decimal rate x = t / 10, t >= 0
FormatRate(t) == Digits(t \div 10) \o <<".">> \o <<DigitChars[(t % 10) + 1]>>

SalesQuery == <<"W","h","a","t"," ","s","h","o","u","l","d"," ","m","a","n","a","g","e","m","e","n",
    "t"," ","f","o","c","u","s"," ","o","n"," ","b","a","s","e","d"," ","o","n"," ","s",
    "a","l","e","s"," ","t","r","e","n","d","s","?">>
ChurnQuery ==
    <<"W","h","a","t"," ","a","r","e"," ","t","h","e"," ","m","a","i","n"," ","d","r","i",
    "v","e","r","s"," ","o","f"," ","c","u","s","t","o","m","e","r"," ","c","h","u","r",
    "n"," ","a","n","d"," ","w","h","a","t"," ","s","p","e","c","i","f","i","c"," ","a",
    "c","t","i","o","n"," ","s","h","o","u","l","d"," ","w","e"," ","t","a","k","e","?">>
SalesUnavailable == <<"S","a","l","e","s"," ","a","n","a","l","y","s","i","s"," ","u","n","a","v","a","i",
    "l","a","b","l","e",".">>
ChurnUnavailable == <<"C","h","u","r","n"," ","a","n","a","l","y","s","i","s"," ","u","n","a","v","a","i",
    "l","a","b","l","e",".">>
SalesLabel == <<"U+1F4C8"," ","S","A","L","E","S",":"," ">>
ChurnLabel == <<"U+1F465"," ","C","H","U","R","N",":"," ">>
ReportTitle == <<"B","U","S","I","N","E","S","S"," ","I","N","S","I","G","H","T","S"," ","(","H","y",
    "b","r","i","d"," ","A","I","/","T","e","m","p","l","a","t","e"," ","A","p","p","r",
    "o","a","c","h",")">>

\* line 69 and line 82
SalesContext(yhat) == <<"S","a","l","e","s"," ","f","o","r","e","c","a","s","t",":"," ","$">> \o FormatThousands(yhat)
ChurnContext(rate) == <<"O","v","e","r","a","l","l"," ","c","h","u","r","n"," ","r","a","t","e",":"," ">> \o FormatRate(rate) \o <<"%">>

\* what the store answers to a query of the report
DbConnectError == [kind |-> "connect_error", value |-> 0]
DbQueryError == [kind |-> "query_error", value |-> 0]
DbEmpty == [kind |-> "empty", value |-> 0]
DbRow(v) == [kind |-> "row", value |-> v]

\* yhat of the latest forecast row, in tenths
YhatValues == {512344, 9995, -4}
\* the churn rate rounded to one decimal, in tenths of a percent
RateValues == {265, 0, 1000}

SalesAnswers == {DbConnectError, DbQueryError, DbEmpty} \cup {DbRow(v) : v \in YhatValues}
ChurnAnswers == {DbConnectError, DbQueryError} \cup {DbRow(v) : v \in RateValues}

\* texts the model returns while the report runs
ReportTexts == RepeatTexts

\* lines 67-71: the try block of generate_sales_insight
sales_try_body(db, gtor, g) ==
    IF db.kind # "row" THEN Raise
    ELSE generate_insight(gtor, g, SalesContext(db.value), SalesQuery)

\* lines 63-74
generate_sales_insight(db, gtor, g) ==
    IF sales_try_body(db, gtor, g).kind = "raise" THEN Return(SalesUnavailable)
    ELSE sales_try_body(db, gtor, g)

\* lines 80-84: the try block of generate_churn_insight
churn_try_body(db, gtor, g) ==
    IF db.kind # "row" THEN Raise
    ELSE generate_insight(gtor, g, ChurnContext(db.value), ChurnQuery)

\* generate_churn_insight with the except clause left out
NoExcept_generate_churn_insight(db, gtor, g) == churn_try_body(db, gtor, g)

\* lines 76-87
generate_churn_insight(db, gtor, g) ==
    IF churn_try_body(db, gtor, g).kind = "raise" THEN Return(ChurnUnavailable)
    ELSE churn_try_body(db, gtor, g)

ReportInit ==
    /\ pc_report = "start"
    /\ sales_db = DbEmpty
    /\ churn_db = DbEmpty
    /\ sales_insight = <<>>
    /\ churn_insight = <<>>
    /\ stdout = <<>>
    /\ report_exit = "running"

\* the generate_insight call made from a report function, when it gets that far
ReportCall(db, c, q, g) ==
    IF db.kind = "row" THEN CallGenerateInsight(c, q, g) ELSE UNCHANGED insight_vars

\* line 93
SalesStep ==
    /\ pc_report = "start"
    /\ \E db \in SalesAnswers, g \in GenBehaviours(ReportTexts) :
        LET r == generate_sales_insight(db, generator, g)
        IN  /\ sales_db' = db
            /\ ReportCall(db, SalesContext(db.value), SalesQuery, g)
            /\ IF r.kind = "raise"
               THEN /\ pc_report' = "exit"
                    /\ report_exit' = "raised"
                    /\ UNCHANGED sales_insight
               ELSE /\ pc_report' = "sales_done"
                    /\ sales_insight' = r.value
                    /\ UNCHANGED report_exit
    /\ UNCHANGED <<churn_db, churn_insight, stdout, train_vars>>

\* line 94
ChurnStep ==
    /\ pc_report = "sales_done"
    /\ \E db \in ChurnAnswers, g \in GenBehaviours(ReportTexts) :
        LET r == generate_churn_insight(db, generator, g)
        IN  /\ churn_db' = db
            /\ ReportCall(db, ChurnContext(db.value), ChurnQuery, g)
            /\ IF r.kind = "raise"
               THEN /\ pc_report' = "exit"
                    /\ report_exit' = "raised"
                    /\ UNCHANGED churn_insight
               ELSE /\ pc_report' = "churn_done"
                    /\ churn_insight' = r.value
                    /\ UNCHANGED report_exit
    /\ UNCHANGED <<sales_db, sales_insight, stdout, train_vars>>

\* lines 96-101
PrintStep ==
    /\ pc_report = "churn_done"
    /\ stdout' = << <<"\n">> \o Repeat("=", RuleWidth),
                    ReportTitle,
                    Repeat("=", RuleWidth),
                    SalesLabel \o sales_insight,
                    ChurnLabel \o churn_insight,
                    Repeat("=", RuleWidth) >>
    /\ pc_report' = "exit"
    /\ report_exit' = "returned"
    /\ UNCHANGED <<insight_vars, sales_db, churn_db, sales_insight, churn_insight, train_vars>>

-----------------------------------------------------------------------------
(* predictive_models.py: the training run *)

\* the forecast horizon in days
Horizon == 90

\* blank, brackets, hyphen, digits and letters in code point order
CodePointOrder ==
    <<" ","(",")","-","0","1","2","3","4","5","6","7","8","9","A","B","C","D","E","F","G",
    "H","I","J","K","L","M","N","O","P","Q","R","S","T","U","V","W","X","Y","Z","a","b",
    "c","d","e","f","g","h","i","j","k","l","m","n","o","p","q","r","s","t","u","v","w",
    "x","y","z">>

Ord(c) == CHOOSE i \in DOMAIN CodePointOrder : CodePointOrder[i] = c

\* the characters of the category labels of the churn table
Spelling ==
    ("Two year" :> <<"T","w","o"," ","y","e","a","r">>) @@ ("Month-to-month" :> <<"M","o","n","t","h","-","t","o","-","m","o","n","t","h">>) @@
    ("One year" :> <<"O","n","e"," ","y","e","a","r">>) @@ ("DSL" :> <<"D","S","L">>) @@
    ("Fiber optic" :> <<"F","i","b","e","r"," ","o","p","t","i","c">>) @@ ("No" :> <<"N","o">>) @@ ("Yes" :> <<"Y","e","s">>) @@
    ("No internet service" :> <<"N","o"," ","i","n","t","e","r","n","e","t"," ","s","e","r","v","i","c","e">>) @@
    ("Mailed check" :> <<"M","a","i","l","e","d"," ","c","h","e","c","k">>) @@
    ("Electronic check" :> <<"E","l","e","c","t","r","o","n","i","c"," ","c","h","e","c","k">>) @@
    ("Credit card (automatic)" :> <<"C","r","e","d","i","t"," ","c","a","r","d"," ","(","a","u","t","o","m","a","t","i",
    "c",")">>)

\* a < b for sequences of characters: lexicographic by code point
RECURSIVE LessChars(_, _)
LessChars(a, b) ==
    IF b = <<>> THEN FALSE
    ELSE IF a = <<>> THEN TRUE
    ELSE IF Head(a) = Head(b) THEN LessChars(Tail(a), Tail(b))
    ELSE Ord(Head(a)) < Ord(Head(b))

\* a < b for Python str
LessStr(a, b) == LessChars(Spelling[a], Spelling[b])

\* the elements of a set of str in ascending order
RECURSIVE SortStrings(_)
SortStrings(S) ==
    IF S = {} THEN <<>>
    ELSE LET m == CHOOSE x \in S : \A y \in S \ {x} : LessStr(x, y)
         IN  <<m>> \o SortStrings(S \ {m})

\* the elements of a set of dates in ascending order
RECURSIVE SortDates(_)
SortDates(S) ==
    IF S = {} THEN <<>>
    ELSE LET m == CHOOSE x \in S : \A y \in S : x <= y
         IN  <<m>> \o SortDates(S \ {m})

Range(seq) == {seq[i] : i \in DOMAIN seq}

\* list.index(v)
IndexOf(seq, v) == (CHOOSE i \in DOMAIN seq : seq[i] = v) - 1

\* the distinct elements of a sequence in the order of their first occurrence
RECURSIVE FirstSeen(_)
FirstSeen(seq) ==
    IF seq = <<>> THEN <<>>
    ELSE LET front == FirstSeen(SubSeq(seq, 1, Len(seq) - 1))
             last == seq[Len(seq)]
         IN  IF last \in Range(front) THEN front ELSE Append(front, last)

\* how main() ends: it returns, or an exception leaves it
Running == [kind |-> "running", error |-> "none"]
Returned == [kind |-> "returned", error |-> "none"]
Raised(e) == [kind |-> "raised", error |-> e]

\* a result of a library call
Ok(v) == [ok |-> TRUE, value |-> v, error |-> "none"]
Fail(e) == [ok |-> FALSE, value |-> <<>>, error |-> e]

(* ---- sales forecasting, lines 33-51 ---- *)

\* Prophet.fit (line 43) on rows [ds, y]: rows without a y are dropped, fewer
\* than 2 remaining rows and an infinite y are ValueErrors; the dates of all
\* rows are kept as the history.
prophet_fit(df) ==
    LET history == SelectSeq(df, LAMBDA r : r.y # "nan")
    IN  IF Len(history) < 2 THEN Fail("InsufficientHistory")
        ELSE IF \E i \in DOMAIN history : history[i].y = "inf" THEN Fail("InvalidSeries")
        ELSE Ok(SortDates({df[i].ds : i \in DOMAIN df}))

\* make_future_dataframe(periods=90) (line 46): the history dates, then the
\* Horizon days after the last of them
make_future_dataframe(history_dates) ==
    history_dates \o [i \in 1..Horizon |-> history_dates[Len(history_dates)] + i]

\* predict (line 47): one forecast row per date, computed by the model of this fit
predict(future, fit) == [i \in DOMAIN future |-> [ds |-> future[i], fit |-> fit]]

\* to_sql(if_exists='append')
Append_to_sql(table, rows) == table \o rows

\* to_sql(if_exists='replace') (line 50)
to_sql(table, rows) == rows

(* ---- churn classification, lines 58-107 ---- *)

CategoricalCols == {"Contract", "InternetService", "OnlineSecurity", "TechSupport", "PaymentMethod"}

Column(table, col) == [i \in DOMAIN table |-> table[i][col]]

\* a LabelEncoder whose classes_ are kept in order of first occurrence
FirstSeen_fit_classes(column) == FirstSeen(column)

\* LabelEncoder.fit (line 80): classes_ is the sorted array of the distinct values
fit_classes(column) == SortStrings(Range(column))

\* LabelEncoder.transform (line 80): the position of each value in classes_
transform(classes, column) == [i \in DOMAIN column |-> IndexOf(classes, column[i])]

\* lines 78-81: label_encoders
fit_encoders(table) == [col \in CategoricalCols |-> fit_classes(Column(table, col))]

\* lines 78-84: churn_df after encoding
encode(table) ==
    LET codes == [col \in CategoricalCols |->
                     transform(fit_classes(Column(table, col)), Column(table, col))]
    IN  [i \in DOMAIN table |->
            [col \in CategoricalCols \cup {"Churn"} |->
                IF col = "Churn"
                THEN (IF table[i].Churn = "Yes" THEN 1 ELSE 0)
                ELSE codes[col][i]]]

CountOf(y, v) == Cardinality({i \in DOMAIN y : y[i] = v})

\* train_test_split(test_size=0.2, stratify=y) (line 91): the sizes of the two
\* partitions, or a ValueError
train_test_split(y) ==
    LET n == Len(y)
        n_test == (n + 4) \div 5
        n_train == n - n_test
        classes == Range(y)
    IN  IF n_train = 0 THEN Fail("EmptyDataset")
        ELSE IF \E c \in classes : CountOf(y, c) < 2 THEN Fail("LabelImbalance")
        ELSE IF n_train < Cardinality(classes) \/ n_test < Cardinality(classes)
             THEN Fail("LabelImbalance")
        ELSE Ok(<<n_train, n_test>>)

NoEncoders == [col \in CategoricalCols |-> <<>>]
NoModel == [fit |-> 0]

\* xgboost_churn_model.json: absent, cut short by run fit, or the classifier of a fit
NoModelFile == [present |-> FALSE, fit |-> 0, intact |-> FALSE]
TruncatedModelFile(fit) == [present |-> TRUE, fit |-> fit, intact |-> FALSE]
ModelFile(model) == [present |-> TRUE, fit |-> model.fit, intact |-> TRUE]

\* label_encoders.json: absent, emptied by run fit, or the encoder_data of a fit
NoEncodersFile == [present |-> FALSE, fit |-> 0, intact |-> FALSE, encoding |-> NoEncoders]
TruncatedEncodersFile(fit) ==
    [present |-> TRUE, fit |-> fit, intact |-> FALSE, encoding |-> NoEncoders]
EncodersFile(fit, encoders) ==
    [present |-> TRUE, fit |-> fit, intact |-> TRUE,
     encoding |-> [col \in DOMAIN encoders |-> encoders[col]]]

TrainInit ==
    /\ pc = "idle"
    /\ run = 0
    /\ sales_df = <<>>
    /\ forecast = <<>>
    /\ sales_forecast = <<>>
    /\ churn_in = <<>>
    /\ churn_df = <<>>
    /\ label_encoders = NoEncoders
    /\ model_xgb = NoModel
    /\ model_file = NoModelFile
    /\ enc_file = NoEncodersFile
    /\ train_exit = Returned

\* lines 22-26: the script is started
StartTraining ==
    /\ pc \in {"idle", "done", "crashed"}
    /\ run < MaxRuns
    /\ run' = run + 1
    /\ pc' = "forecast"
    /\ train_exit' = Running
    /\ sales_df' = <<>>
    /\ forecast' = <<>>
    /\ churn_in' = <<>>
    /\ churn_df' = <<>>
    /\ label_encoders' = NoEncoders
    /\ model_xgb' = NoModel
    /\ UNCHANGED <<sales_forecast, model_file, enc_file, insight_vars, report_vars>>

\* FitForecast with the stored forecast table emptied before the fit
ClearFirst_FitForecast(S) ==
    /\ pc = "forecast"
    /\ \E s \in S :
        LET r == prophet_fit(s)
        IN  /\ sales_df' = s
            /\ IF r.ok
               THEN /\ forecast' = predict(make_future_dataframe(r.value), run)
                    /\ pc' = "save_forecast"
                    /\ UNCHANGED train_exit
               ELSE /\ pc' = "crashed"
                    /\ train_exit' = Raised(r.error)
                    /\ UNCHANGED forecast
    /\ sales_forecast' = <<>>
    /\ UNCHANGED <<run, churn_in, churn_df, label_encoders, model_xgb,
                   model_file, enc_file, insight_vars, report_vars>>

\* lines 34-47: read the sales series, fit, predict
FitForecast(S) ==
    /\ pc = "forecast"
    /\ \E s \in S :
        LET r == prophet_fit(s)
        IN  /\ sales_df' = s
            /\ IF r.ok
               THEN /\ forecast' = predict(make_future_dataframe(r.value), run)
                    /\ pc' = "save_forecast"
                    /\ UNCHANGED train_exit
               ELSE /\ pc' = "crashed"
                    /\ train_exit' = Raised(r.error)
                    /\ UNCHANGED forecast
    /\ UNCHANGED <<run, churn_in, churn_df, label_encoders, model_xgb, sales_forecast,
                   model_file, enc_file, insight_vars, report_vars>>

\* line 50
SaveForecast ==
    /\ pc = "save_forecast"
    /\ sales_forecast' = to_sql(sales_forecast, forecast)
    /\ pc' = "classifier"
    /\ UNCHANGED <<run, train_locals, model_file, enc_file, train_exit, insight_vars, report_vars>>

\* lines 72-107: read the churn table, encode, split, fit, evaluate.  A fit on
\* labels of one class only either succeeds or raises, with the xgboost version.
TrainClassifier(T) ==
    /\ pc = "classifier"
    /\ \E t \in T, xgb_ok \in BOOLEAN :
        LET encoded == encode(t)
            y == [i \in DOMAIN t |-> encoded[i].Churn]
            parts == train_test_split(y)
        IN  /\ xgb_ok \/ Cardinality(Range(y)) = 1
            /\ churn_in' = t
            /\ churn_df' = encoded
            /\ label_encoders' = fit_encoders(t)
            /\ IF ~parts.ok
               THEN /\ pc' = "crashed"
                    /\ train_exit' = Raised(parts.error)
                    /\ UNCHANGED model_xgb
               ELSE IF ~xgb_ok
               THEN /\ pc' = "crashed"
                    /\ train_exit' = Raised("XGBoostError")
                    /\ UNCHANGED model_xgb
               ELSE /\ pc' = "save_model"
                    /\ model_xgb' = [fit |-> run]
                    /\ UNCHANGED train_exit
    /\ UNCHANGED <<run, sales_df, forecast, sales_forecast, model_file, enc_file,
                   insight_vars, report_vars>>

\* line 110: save_model writes the file, or fails with the file untouched or cut short
SaveModel ==
    /\ pc = "save_model"
    /\ \/ /\ model_file' = ModelFile(model_xgb)
          /\ pc' = "save_encoders"
          /\ UNCHANGED train_exit
       \/ /\ model_file' \in {model_file, TruncatedModelFile(run)}
          /\ pc' = "crashed"
          /\ train_exit' = Raised("OSError")
    /\ UNCHANGED <<run, train_locals, sales_forecast, enc_file, insight_vars, report_vars>>

\* lines 113-115: open(..., 'w') empties the file, json.dump fills it
SaveEncoders ==
    /\ pc = "save_encoders"
    /\ \/ /\ enc_file' = EncodersFile(run, label_encoders)
          /\ pc' = "done"
          /\ train_exit' = Returned
       \/ /\ enc_file' \in {enc_file, TruncatedEncodersFile(run)}
          /\ pc' = "crashed"
          /\ train_exit' = Raised("OSError")
    /\ UNCHANGED <<run, train_locals, sales_forecast, model_file, insight_vars, report_vars>>

-----------------------------------------------------------------------------
(* Inputs of the training run *)

\* a sales value: a finite amount, a missing value, an infinite value
YValues == {"finite", "nan", "inf"}

\* the sales series: one row per date of a set of dates, in date order
SalesTables ==
    UNION {{[i \in 1..Cardinality(D) |-> [ds |-> SortDates(D)[i], y |-> f[SortDates(D)[i]]]] :
               f \in [D -> YValues]} : D \in SUBSET (1..MaxDay)}

\* a few series: a single point, an infinite value, two valid points
FewSales ==
    {<<[ds |-> 1, y |-> "finite"]>>,
     <<[ds |-> 1, y |-> "finite"], [ds |-> 2, y |-> "inf"]>>,
     <<[ds |-> 1, y |-> "finite"], [ds |-> 2, y |-> "finite"]>>}

Customer(contract, internet, security, support, payment, churn) ==
    [Contract |-> contract, InternetService |-> internet, OnlineSecurity |-> security,
     TechSupport |-> support, PaymentMethod |-> payment, Churn |-> churn]

Loyal ==
    Customer("Two year", "DSL", "Yes", "Yes", "Mailed check", "No")
Leaver ==
    Customer("Month-to-month", "Fiber optic", "No", "No", "Electronic check", "Yes")
Offline ==
    Customer("One year", "No", "No internet service", "No internet service",
             "Credit card (automatic)", "No")

Customers == {Loyal, Leaver}

\* the churn table: up to MaxRows customers
ChurnTables == UNION {[1..n -> Customers] : n \in 0..MaxRows}

\* a few churn tables: no rows, and six rows with three leavers
FewChurn == {<<>>, <<Loyal, Leaver, Offline, Leaver, Loyal, Leaver>>}

-----------------------------------------------------------------------------
(* Properties of the synthesizer *)

IsAI(o) == o.kind = "return" /\ startswith(o.value, AIMarker)
IsTemplate(o) == o.kind = "return" /\ startswith(o.value, TemplateMarker)

\* the number of period characters of a text
Periods(s) == Cardinality({i \in DOMAIN s : s[i] = "."})

\* the text returned behind the AI-tier marker
AIBody(o) == SubSeq(o.value, Len(AIMarker) + 1, Len(o.value))

\* the two results of the template tier
ChurnFallback == TemplateMarker \o ChurnTemplate
SalesFallback == TemplateMarker \o SalesTemplate

\* C1: every call of generate_insight returns a non-empty string and raises no
\* error, whether the model is not loaded, raises, or returns any text.
C1_NeverFails ==
    calls > 0 => (outcome.kind = "return" /\ Len(outcome.value) > 0)

C1_Witness ==
    /\ calls > 0
    /\ gen.kind = "raise"
    /\ outcome.kind = "return"
    /\ Len(outcome.value) > 0

\* C2: every result starts with exactly one of the two tier markers, and when the
\* model failed to load or raises during the call the result starts with the
\* template-tier marker and not with the AI-tier marker.
C2_TierMarker ==
    calls > 0 =>
        /\ (IsAI(outcome) /\ ~IsTemplate(outcome)) \/ (IsTemplate(outcome) /\ ~IsAI(outcome))
        /\ (generator = "None" \/ gen.kind = "raise") =>
               (IsTemplate(outcome) /\ ~IsAI(outcome))

C2_Witness ==
    /\ calls > 0
    /\ generator = "None"
    /\ IsTemplate(outcome)

\* C3: a generated text that is shorter than 10 characters after trimming, or holds
\* more than 5 periods, yields the template-tier fallback output; the text behind
\* an AI-tier marker has at least 10 characters and at most 5 periods.
C3_QualityBounds ==
    calls > 0 =>
        /\ (gen.kind = "text" /\ (Len(strip(gen.text)) < 10 \/ Periods(strip(gen.text)) > 5)) =>
               outcome \in {Return(ChurnFallback), Return(SalesFallback)}
        /\ IsAI(outcome) => (Len(AIBody(outcome)) >= 10 /\ Periods(AIBody(outcome)) <= 5)

C3_Witness ==
    /\ calls > 0
    /\ gen = GenText(<<"o","k"," ","o","k">>)
    /\ IsTemplate(outcome)

\* the number of tokens of a token list equal to tok
TokenCount(tokens, tok) == Cardinality({i \in DOMAIN tokens : tokens[i] = tok})

\* C4: a generated text within the length and period bounds is rejected if and
\* only if one of its first three whitespace-delimited tokens occurs as a token
\* more than twice; otherwise it is returned under the AI-tier marker.
C4_TokenRepetition ==
    LET text == strip(gen.text)
        tokens == split(text)
    IN  (calls > 0 /\ gen.kind = "text" /\ Len(text) >= 10 /\ Periods(text) <= 5) =>
            /\ IsTemplate(outcome) <=>
                   \E i \in DOMAIN tokens : i <= 3 /\ TokenCount(tokens, tokens[i]) > 2
            /\ IsAI(outcome) <=>
                   \A i \in DOMAIN tokens : i <= 3 => TokenCount(tokens, tokens[i]) <= 2

ChurnUpper == <<"C","H","U","R","N">>

\* "churn" occurs in q, each letter in either case
HasChurnAnyCase(q) ==
    \E i \in 0..(Len(q) - 5) :
        \A k \in 1..5 : q[i + k] \in {ChurnKeyword[k], ChurnUpper[k]}

\* C5: a fallback result is decided by the query alone: the template-tier marker
\* followed by the churn template if the query holds "churn" in any letter case, by
\* the sales template otherwise; a second fallback call with the same query and
\* any context returns the same string.
C5_FallbackByQuery ==
    /\ [](IsTemplate(outcome) =>
             outcome.value = IF HasChurnAnyCase(query) THEN ChurnFallback ELSE SalesFallback)
    /\ [][(IsTemplate(outcome) /\ IsTemplate(outcome') /\ query' = query) =>
             outcome'.value = outcome.value]_vars

C5_Witness ==
    /\ calls = 2
    /\ query = ChurnUpper
    /\ outcome = Return(ChurnFallback)
    /\ contains(outcome.value, <<"2","6",".","5","%"," ","c","h","u","r","n"," ","r","a","t","e">>)

-----------------------------------------------------------------------------
(* Properties of the report *)

StoreFailed(db) == db.kind # "row"
Marked(s) == startswith(s, AIMarker) \/ startswith(s, TemplateMarker)

\* C6: main() returns for every combination of store failures, prints the SALES
\* and the CHURN line, turns a failed query into the "unavailable" string of that
\* insight only, and computes the other insight.
C6_ReportDegrades ==
    pc_report = "exit" =>
        /\ report_exit = "returned"
        /\ Len(stdout) = 6
        /\ stdout[4] = SalesLabel \o sales_insight
        /\ stdout[5] = ChurnLabel \o churn_insight
        /\ IF StoreFailed(sales_db) THEN sales_insight = SalesUnavailable
                                    ELSE Marked(sales_insight)
        /\ IF StoreFailed(churn_db) THEN churn_insight = ChurnUnavailable
                                    ELSE Marked(churn_insight)

C6_Witness ==
    /\ pc_report = "exit"
    /\ sales_db = DbRow(512344)
    /\ churn_db = DbQueryError
    /\ Marked(sales_insight)
    /\ stdout[5] = ChurnLabel \o ChurnUnavailable

-----------------------------------------------------------------------------
(* Properties of the training run *)

RunEnded == pc \in {"done", "crashed"}
ForecastErrors == {"InsufficientHistory", "InvalidSeries"}
ClassifierErrors == {"EmptyDataset", "LabelImbalance"}
FailedWith(errors) == pc = "crashed" /\ train_exit.error \in errors

\* C7: after any training run the classifier file and the encoding file come from
\* the same fit.
C7_PairedArtifacts ==
    (RunEnded /\ model_file.intact /\ enc_file.intact) => model_file.fit = enc_file.fit

\* the encoders of this run are fitted
Encoded == pc \in {"save_model", "save_encoders", "done"} \/ FailedWith(ClassifierErrors)

\* the encoding artifact written by this run
EncodingSaved == pc = "done" /\ enc_file.intact /\ enc_file.fit = run

\* classes lists the distinct values of column, and codes their positions
IsEncodingOf(classes, codes, column) ==
    /\ Range(classes) = Range(column)
    /\ \A i \in DOMAIN column : classes[codes[i] + 1] = column[i]

\* C8 as stated: the label list of every categorical column holds the distinct
\* values in first-seen order, each code is the index of its value, and this list
\* is what the encoding artifact holds.
C8_FirstSeenLabels ==
    \A col \in CategoricalCols :
        /\ Encoded =>
            /\ label_encoders[col] = FirstSeen(Column(churn_in, col))
            /\ IsEncodingOf(label_encoders[col], Column(churn_df, col), Column(churn_in, col))
        /\ EncodingSaved => enc_file.encoding[col] = FirstSeen(Column(churn_in, col))

\* C8 amended: the label list of every categorical column holds the distinct
\* values in ascending order, each code is the index of its value, and this list
\* is what the encoding artifact holds.
C8_SortedLabels ==
    \A col \in CategoricalCols :
        /\ Encoded =>
            /\ \A i \in 1..(Len(label_encoders[col]) - 1) :
                   LessStr(label_encoders[col][i], label_encoders[col][i + 1])
            /\ IsEncodingOf(label_encoders[col], Column(churn_df, col), Column(churn_in, col))
        /\ EncodingSaved => enc_file.encoding[col] = label_encoders[col]

C8_Witness ==
    /\ EncodingSaved
    /\ Len(label_encoders["Contract"]) = 2
    /\ label_encoders["Contract"] # FirstSeen(Column(churn_in, "Contract"))

\* C9: a failed forecast step leaves the forecast table and the two files as they
\* were, a failed classifier step leaves the two files as they were; nothing that
\* is persisted carries the fit of the failed step.
C9_FailedStepKeepsArtifacts ==
    /\ [](FailedWith(ForecastErrors) =>
             /\ \A i \in DOMAIN sales_forecast : sales_forecast[i].fit # run
             /\ model_file.fit # run /\ enc_file.fit # run)
    /\ [](FailedWith(ClassifierErrors) => (model_file.fit # run /\ enc_file.fit # run))
    /\ [][(pc' = "crashed" /\ train_exit'.error \in ForecastErrors) =>
             UNCHANGED <<sales_forecast, model_file, enc_file>>]_vars
    /\ [][(pc' = "crashed" /\ train_exit'.error \in ClassifierErrors) =>
             UNCHANGED <<model_file, enc_file>>]_vars

C9_Witness ==
    /\ FailedWith({"LabelImbalance"})
    /\ model_file.intact /\ enc_file.intact
    /\ model_file.fit = 1 /\ enc_file.fit = 1 /\ run = 2

\* the series just read has only finite values
AllFinite(df) == \A i \in DOMAIN df : df[i].y = "finite"
ForecastSaved == pc \in {"classifier", "save_model", "save_encoders", "done"}
                 \/ FailedWith(ClassifierErrors \cup {"XGBoostError", "OSError"})

\* C10: a forecast on a single point fails with InsufficientHistory and writes
\* nothing; a forecast on two or more valid points succeeds and leaves the table
\* holding one row per historical date followed by one row for each of the 90 days
\* after the last date, all of this run.
C10_ForecastRows ==
    /\ [](Len(sales_df) = 1 =>
             /\ pc = "crashed" /\ train_exit = Raised("InsufficientHistory")
             /\ \A i \in DOMAIN sales_forecast : sales_forecast[i].fit # run)
    /\ []((Len(sales_df) >= 2 /\ AllFinite(sales_df)) =>
             /\ pc = "save_forecast" \/ ForecastSaved
             /\ ForecastSaved =>
                 /\ Len(sales_forecast) = Len(sales_df) + 90
                 /\ \A i \in DOMAIN sales_df :
                        sales_forecast[i] = [ds |-> sales_df[i].ds, fit |-> run]
                 /\ \A k \in 1..90 :
                        sales_forecast[Len(sales_df) + k] =
                            [ds |-> sales_df[Len(sales_df)].ds + k, fit |-> run])
    /\ [][(pc' = "crashed" /\ train_exit' = Raised("InsufficientHistory")) =>
             sales_forecast' = sales_forecast]_vars

C10_Witness ==
    /\ run = 2
    /\ pc = "classifier"
    /\ Len(sales_df) = 2
    /\ Len(sales_forecast) = 92

-----------------------------------------------------------------------------
(* Specifications *)

Init == InsightInit /\ ReportInit /\ TrainInit

\* requests to the synthesizer
InsightNext == Synthesize \/ SynthesizeAgain
SpecInsight == Init /\ [][InsightNext]_vars

\* one run of the report entry point
ReportNext == SalesStep \/ ChurnStep \/ PrintStep
SpecReport == Init /\ [][ReportNext]_vars

\* training runs over all sales series
ForecastNext ==
    \/ StartTraining
    \/ FitForecast(SalesTables)
    \/ SaveForecast
    \/ TrainClassifier(FewChurn)
    \/ SaveModel
    \/ SaveEncoders
SpecForecast == Init /\ [][ForecastNext]_vars

\* training runs over all churn tables
ClassifierNext ==
    \/ StartTraining
    \/ FitForecast(FewSales)
    \/ SaveForecast
    \/ TrainClassifier(ChurnTables)
    \/ SaveModel
    \/ SaveEncoders
SpecClassifier == Init /\ [][ClassifierNext]_vars

====
